---- MODULE Spec2Model ----
(***************************************************************************)
(* Model of notebooks/survival_analysis.ipynb: the cells of the notebook   *)
(* run top to bottom.  Spec covers the data cells (load and clean, the     *)
(* interval partition, the death and exposure matrices); SpecPost covers    *)
(* the cells that post-process the posterior trace (hazards, cumulative    *)
(* hazard, survival, plot_with_hpd), from the state the data cells leave.  *)
(*                                                                         *)
(* Python arrays are 0-based; they are kept here as TLA+ sequences and     *)
(* read with At, which takes the Python index.  Observation times are      *)
(* positive integers (months), as in the mastectomy data set.              *)
(***************************************************************************)
EXTENDS Integers, Sequences, FiniteSets, TLC

\* ---------------------------------------------------------------- bounds
MaxPatients == 2
MaxTime == 7
MaxSamples == 41      \* posterior draws per trace (n_samples is 1000 in the notebook)
MaxTimePost == 3      \* largest observation time under SpecPost
MaxHazard == 1        \* small hazard draws are 0..MaxHazard
BigHazard == 249      \* one large hazard draw

\* -------------------------------------------------------------- helpers
\* a[i] for a Python index i (negative indices count from the end)
At(a, i) == IF i < 0 THEN a[Len(a) + i + 1] ELSE a[i + 1]

\* a[:-1]
AllButLast(a) == SubSeq(a, 1, Len(a) - 1)

Max(a, b) == IF a >= b THEN a ELSE b
Min(a, b) == IF a <= b THEN a ELSE b

\* Series.max()
SeqMax(s) == CHOOSE m \in {s[k] : k \in DOMAIN s} : \A k \in DOMAIN s : s[k] <= m

\* np.arange(start, stop, step), step > 0: start, start+step, ... below stop
np_arange(start, stop, step) ==
    LET size == IF stop <= start THEN 0 ELSE (stop - start + step - 1) \div step
    IN  [k \in 1..size |-> start + (k - 1) * step]

\* astype(np.int64) of a boolean
astype_int64(b) == IF b THEN 1 ELSE 0

\* ------------------------------------------------------------ the state
VARIABLES
    pc,               \* the next cell to run
    df,               \* the observations: one record per subject
    n_patients,
    patients,         \* np.arange(n_patients)
    interval_bounds,
    n_intervals,
    last_period,
    death,            \* death[i][j], n_patients x n_intervals
    exposure,         \* exposure[i][j], n_patients x n_intervals
    lambda_,          \* lambda_[i][j] at one point (lambda0, beta) of the model
    mu,               \* mu[i][j], the Poisson mean at that point
    n_samples,
    trace,            \* the sampler's draws: lambda0[s][j] and beta[s]
    base_hazard,      \* base_hazard[s][j]
    met_hazard,       \* met_hazard[s][j]
    plots             \* what plot_with_hpd drew, one record per call

datavars == <<df, n_patients, patients, interval_bounds, n_intervals,
              last_period, death, exposure>>
postvars == <<n_samples, trace, base_hazard, met_hazard, plots>>
modelvars == <<lambda_, mu>>
vars == <<pc, datavars, modelvars, postvars>>

interval_length == 3

\* what get_rdataset('mastectomy', 'HSAUR') may hand back: time in months,
\* event a boolean, metastized 'yes' or 'no'
RawRow == [time : 1..MaxTime, event : BOOLEAN, metastized : {"yes", "no"}]
RawDatasets == UNION {[1..n -> RawRow] : n \in 1..MaxPatients}

\* df.time as a sequence
Times(d) == [k \in DOMAIN d |-> d[k].time]

\* ---------------------------------------------------------------- cells
Init ==
    /\ pc = "load"
    /\ df = <<>>
    /\ n_patients = 0
    /\ patients = <<>>
    /\ interval_bounds = <<>>
    /\ n_intervals = 0
    /\ last_period = <<>>
    /\ death = <<>>
    /\ exposure = <<>>
    /\ lambda_ = <<>>
    /\ mu = <<>>
    /\ n_samples = 0
    /\ trace = <<>>
    /\ base_hazard = <<>>
    /\ met_hazard = <<>>
    /\ plots = <<>>

\* the cleaned frame: event as int64, metastized == 'yes' as int64
CleanFrame(raw) ==
    [k \in DOMAIN raw |->
        [time       |-> raw[k].time,
         event      |-> astype_int64(raw[k].event),
         metastized |-> astype_int64(raw[k].metastized = "yes")]]

LoadCell ==
    /\ pc = "load"
    /\ \E raw \in RawDatasets :
        /\ df' = CleanFrame(raw)
        /\ n_patients' = Len(raw)
        /\ patients' = np_arange(0, Len(raw), 1)
    /\ pc' = "intervals"
    /\ UNCHANGED <<interval_bounds, n_intervals, last_period, death, exposure>>
    /\ UNCHANGED <<modelvars, postvars>>

\* mutant: the last bound clipped to the largest observed time
IntervalBoundsClipped(d) ==
    Append(np_arange(0, SeqMax(Times(d)), interval_length), SeqMax(Times(d)) + 1)

\* interval_bounds = np.arange(0, df.time.max() + interval_length + 1, interval_length)
IntervalBounds(d) ==
    np_arange(0, SeqMax(Times(d)) + interval_length + 1, interval_length)

IntervalCell ==
    /\ pc = "intervals"
    /\ interval_bounds' = IntervalBounds(df)
    /\ n_intervals' = Len(IntervalBounds(df)) - 1
    /\ pc' = "death"
    /\ UNCHANGED <<df, n_patients, patients, last_period, death, exposure>>
    /\ UNCHANGED <<modelvars, postvars>>

\* mutant: the 0.01 is not subtracted
LastPeriodNoShift(t) == t \div interval_length

\* np.floor((t - 0.01) / interval_length).astype(int), t an integer:
\* (t - 0.01) / L = (100 t - 1) / (100 L), and \div rounds down
LastPeriod(t) == (100 * t - 1) \div (100 * interval_length)

\* m[rows[k], cols[k]] = vals[k] for every k, on a copy of m
FancyAssign(m, rows, cols, vals) ==
    [i \in DOMAIN m |->
        [j \in DOMAIN m[i] |->
            IF \E k \in DOMAIN rows :
                   /\ rows[k] + 1 = i
                   /\ (IF cols[k] < 0 THEN Len(m[i]) + cols[k] + 1 ELSE cols[k] + 1) = j
            THEN LET k == CHOOSE k \in DOMAIN rows :
                              /\ rows[k] + 1 = i
                              /\ (IF cols[k] < 0 THEN Len(m[i]) + cols[k] + 1
                                  ELSE cols[k] + 1) = j
                 IN  vals[k]
            ELSE m[i][j]]]

\* np.zeros((rows, cols))
np_zeros(rows, cols) == [i \in 1..rows |-> [j \in 1..cols |-> 0]]

\* mutant: a 1 is written for every subject, censored or not
DeathMatrixAlwaysOne(d, rows, lp, n) ==
    FancyAssign(np_zeros(Len(d), n), rows, lp, [k \in DOMAIN d |-> 1])

\* mutant: the event is written in every interval up to the last period
DeathMatrixUpToLast(d, rows, lp, n) ==
    [i \in 1..Len(d) |-> [j \in 1..n |-> IF j <= lp[i] + 1 THEN d[i].event ELSE 0]]

\* death = np.zeros(...); death[patients, last_period] = df.event
DeathMatrix(d, rows, lp, n) ==
    FancyAssign(np_zeros(Len(d), n), rows, lp, [k \in DOMAIN d |-> d[k].event])

DeathCell ==
    /\ pc = "death"
    /\ last_period' = [k \in DOMAIN df |-> LastPeriod(df[k].time)]
    /\ death' = DeathMatrix(df, patients,
                            [k \in DOMAIN df |-> LastPeriod(df[k].time)], n_intervals)
    /\ pc' = "exposure"
    /\ UNCHANGED <<df, n_patients, patients, interval_bounds, n_intervals, exposure>>
    /\ UNCHANGED <<modelvars, postvars>>

\* np.greater_equal.outer(df.time, interval_bounds[:-1]) * interval_length
AtRiskOuter(d, bounds) ==
    [i \in DOMAIN d |->
        [j \in DOMAIN AllButLast(bounds) |->
            IF d[i].time >= AllButLast(bounds)[j] THEN interval_length ELSE 0]]

\* mutant: the last period's exposure is measured from the interval's upper bound
ExposureMatrixUpperBound(d, rows, lp, bounds) ==
    FancyAssign(AtRiskOuter(d, bounds), rows, lp,
                [k \in DOMAIN d |-> d[k].time - At(bounds, lp[k] + 1)])

\* exposure[patients, last_period] = df.time - interval_bounds[last_period]
ExposureMatrix(d, rows, lp, bounds) ==
    FancyAssign(AtRiskOuter(d, bounds), rows, lp,
                [k \in DOMAIN d |-> d[k].time - At(bounds, lp[k])])

\* mutant: the subtraction is done in place on df.time
ExposureCellInPlace ==
    /\ pc = "exposure"
    /\ df' = [k \in DOMAIN df |->
                [df[k] EXCEPT !.time = df[k].time - At(interval_bounds, last_period[k])]]
    /\ exposure' = ExposureMatrix(df', patients, last_period, interval_bounds)
    /\ pc' = "model"
    /\ UNCHANGED <<n_patients, patients, interval_bounds, n_intervals,
                   last_period, death>>
    /\ UNCHANGED <<modelvars, postvars>>

ExposureCell ==
    /\ pc = "exposure"
    /\ exposure' = ExposureMatrix(df, patients, last_period, interval_bounds)
    /\ pc' = "model"
    /\ UNCHANGED <<df, n_patients, patients, interval_bounds, n_intervals,
                   last_period, death>>
    /\ UNCHANGED <<modelvars, postvars>>

\* beta draws are kept as e^beta, a positive integer
ExpBetaValues == {1, 2}

\* lambda0 is Gamma distributed, so every draw is above 0
PositiveHazardValues == {1, 2}

RECURSIVE Pow(_, _)
Pow(b, n) == IF n = 0 THEN 1 ELSE b * Pow(b, n - 1)

\* T.outer(T.exp(beta * df.metastized), lambda0), with e = e^beta:
\* exp(beta * m) = e^m for the integer m
Lambda(d, lambda0, e) ==
    [i \in DOMAIN d |-> [j \in DOMAIN lambda0 |-> Pow(e, d[i].metastized) * lambda0[j]]]

\* exposure * lambda_, elementwise
PoissonMean(expo, lam) ==
    [i \in DOMAIN expo |-> [j \in DOMAIN expo[i] |-> expo[i][j] * lam[i][j]]]

\* the model cell builds symbolic tensors; they are evaluated here at one
\* point of the parameter space: the same lambda0 > 0 in every interval
\* and a beta kept as e^beta
ModelCell ==
    /\ pc = "model"
    /\ \E h \in PositiveHazardValues : \E e \in ExpBetaValues :
        /\ lambda_' = Lambda(df, [j \in 1..n_intervals |-> h], e)
        /\ mu' = PoissonMean(exposure, Lambda(df, [j \in 1..n_intervals |-> h], e))
    /\ pc' = "sample"
    /\ UNCHANGED <<datavars, postvars>>

Next == LoadCell \/ IntervalCell \/ DeathCell \/ ExposureCell \/ ModelCell

Spec == Init /\ [][Next]_vars


\* ------------------------------------------------------------- numbers
\* Hazards are non-negative integers.  Means and percentiles of them are
\* exact fractions [num, den], den > 0; float rounding of sums and
\* quotients is not modelled.
RECURSIVE Gcd(_, _)
Gcd(a, b) == IF b = 0 THEN a ELSE Gcd(b, a % b)

Abs(a) == IF a < 0 THEN -a ELSE a

Rat(n, d) ==
    LET g == Gcd(Abs(n), d)
    IN  [num |-> n \div g, den |-> d \div g]

RatOf(n) == [num |-> n, den |-> 1]
RatAdd(a, b) == Rat(a.num * b.den + b.num * a.den, a.den * b.den)
RatSub(a, b) == Rat(a.num * b.den - b.num * a.den, a.den * b.den)
RatMul(a, b) == Rat(a.num * b.num, a.den * b.den)
RatNeg(a) == [num |-> -a.num, den |-> a.den]
RatLeq(a, b) == a.num * b.den <= b.num * a.den
RatLess(a, b) == a.num * b.den < b.num * a.den

RECURSIVE RatSum(_)
RatSum(v) == IF v = <<>> THEN RatOf(0)
             ELSE RatAdd(RatSum(SubSeq(v, 1, Len(v) - 1)), v[Len(v)])

RECURSIVE IntSum(_)
IntSum(v) == IF v = <<>> THEN 0 ELSE IntSum(SubSeq(v, 1, Len(v) - 1)) + v[Len(v)]

\* an integer array as fractions
AsRat(v) == [j \in DOMAIN v |-> RatOf(v[j])]

\* np.exp(x) in float64.  e^x is not a fraction, so a positive finite result
\* is kept as its logarithm x; the result is 0.0 when x is below
\* -745.13 (e^x rounds to zero) and inf when x is above 709.78.
ExpUnderflow == 74513        \* hundredths
ExpOverflow == 70978         \* hundredths

np_exp(x) ==
    IF x.num * 100 < -ExpUnderflow * x.den THEN [kind |-> "zero", log |-> RatOf(0)]
    ELSE IF x.num * 100 > ExpOverflow * x.den THEN [kind |-> "inf", log |-> RatOf(0)]
    ELSE [kind |-> "pos", log |-> x]

FloatRank(a) == CASE a.kind = "zero" -> 0 [] a.kind = "pos" -> 1 [] a.kind = "inf" -> 2

\* a <= b and a < b for results of np_exp (e^x increases with x)
FloatLeq(a, b) ==
    \/ FloatRank(a) < FloatRank(b)
    \/ FloatRank(a) = FloatRank(b) /\ (a.kind = "pos" => RatLeq(a.log, b.log))

FloatLess(a, b) == ~FloatLeq(b, a)

\* a <= b for two values of one array, fractions or results of np_exp
ValLeq(a, b) == IF "kind" \in DOMAIN a THEN FloatLeq(a, b) ELSE RatLeq(a, b)
ValLess(a, b) == ~ValLeq(b, a)

\* ------------------------------------------------- posterior transforms
\* mutant: the hazards are summed without the interval length
cum_hazard_unscaled(hazard) ==
    [j \in DOMAIN hazard |-> RatSum([k \in 1..j |-> hazard[k]])]

\* (interval_length * hazard).cumsum(axis=-1), hazard one row
cum_hazard(hazard) ==
    [j \in DOMAIN hazard |->
        RatSum([k \in 1..j |-> RatMul(RatOf(interval_length), hazard[k])])]

\* mutant: the sign of the exponent is lost
survival_unnegated(hazard) ==
    [j \in DOMAIN hazard |-> np_exp(cum_hazard(hazard)[j])]

\* np.exp(-cum_hazard(hazard)), hazard one row
survival(hazard) ==
    [j \in DOMAIN hazard |-> np_exp(RatNeg(cum_hazard(hazard)[j]))]

\* f(hazard) for the f handed to plot_with_hpd
Apply(f, hazard) == IF f = "cum_hazard" THEN cum_hazard(hazard) ELSE survival(hazard)

\* hazard.mean(axis=0)
MeanAxis0(hazard) ==
    [j \in DOMAIN hazard[1] |->
        Rat(IntSum([s \in DOMAIN hazard |-> hazard[s][j]]), Len(hazard))]

\* alpha=0.05, the default of plot_with_hpd
alpha == Rat(5, 100)

\* mutant: the two percentiles in the other order
PercentilesSwapped ==
    <<RatMul(RatOf(100), RatSub(RatOf(1), RatMul(alpha, Rat(1, 2)))),
      RatMul(RatOf(100), RatMul(alpha, Rat(1, 2)))>>

\* 100 * np.array([alpha / 2., 1. - alpha / 2.])
Percentiles ==
    <<RatMul(RatOf(100), RatMul(alpha, Rat(1, 2))),
      RatMul(RatOf(100), RatSub(RatOf(1), RatMul(alpha, Rat(1, 2))))>>

\* np.percentile(column, q): with the column sorted and index = q/100 * (n-1),
\* the value sorted[lo] + frac * (sorted[hi] - sorted[lo]), lo = floor(index).
\* The two neighbours and frac are kept, since a mix of two results of np_exp
\* has no exact form here.
np_percentile(column, q) ==
    LET sorted == SortSeq(column, LAMBDA a, b : ValLess(a, b))
        index  == RatMul(RatMul(q, Rat(1, 100)), RatOf(Len(column) - 1))
        lo     == index.num \div index.den
        hi     == Min(lo + 1, Len(column) - 1)
    IN  [lo   |-> At(sorted, lo),
         hi   |-> At(sorted, hi),
         frac |-> RatSub(index, RatOf(lo))]

\* def plot_with_hpd(x, hazard, f, ax, ...): the centre line f(hazard.mean(axis=0)),
\* and the band between the two percentiles of f(hazard) over the samples
plot_with_hpd(x, hazard, f) ==
    LET mean   == Apply(f, MeanAxis0(hazard))
        curves == [s \in DOMAIN hazard |-> Apply(f, AsRat(hazard[s]))]
        hpd    == [p \in 1..2 |->
                      [j \in DOMAIN mean |->
                          np_percentile([s \in DOMAIN curves |-> curves[s][j]],
                                        Percentiles[p])]]
    IN  [f |-> f, x |-> x, mean |-> mean, curves |-> curves,
         lower |-> hpd[1], upper |-> hpd[2]]

\* ------------------------------------------------------ posterior cells
Replicate(v, n) == [k \in 1..n |-> v]

HazardValues == (0..MaxHazard) \cup {BigHazard}

\* what pm.sample may return for n draws over k intervals: n - 1 equal draws
\* of lambda0, each the same hazard h in every interval, and one more draw
\* that is any sequence of k hazards; beta is the same in every draw
Traces(n, k) ==
    {[lambda0 |-> Append(Replicate(Replicate(h, k), n - 1), b),
      exp_beta |-> Replicate(e, n)] :
        h \in HazardValues, b \in [1..k -> HazardValues], e \in ExpBetaValues}

\* the state the data cells leave for one subject observed for t months
InitPost ==
    \E t \in 1..MaxTimePost :
        LET d  == CleanFrame(<<[time |-> t, event |-> TRUE, metastized |-> "yes"]>>)
            b  == IntervalBounds(d)
            lp == [k \in DOMAIN d |-> LastPeriod(d[k].time)]
        IN  /\ pc = "sample"
            /\ df = d
            /\ n_patients = Len(d)
            /\ patients = np_arange(0, Len(d), 1)
            /\ interval_bounds = b
            /\ n_intervals = Len(b) - 1
            /\ last_period = lp
            /\ death = DeathMatrix(d, np_arange(0, Len(d), 1), lp, Len(b) - 1)
            /\ exposure = ExposureMatrix(d, np_arange(0, Len(d), 1), lp, b)
            /\ lambda_ = Lambda(d, [j \in 1..(Len(b) - 1) |-> 1], 1)
            /\ mu = PoissonMean(ExposureMatrix(d, np_arange(0, Len(d), 1), lp, b),
                                Lambda(d, [j \in 1..(Len(b) - 1) |-> 1], 1))
            /\ n_samples \in 1..MaxSamples
            /\ trace = <<>>
            /\ base_hazard = <<>>
            /\ met_hazard = <<>>
            /\ plots = <<>>

\* trace = pm.sample(n_samples, ...)
SampleCell ==
    /\ pc = "sample"
    /\ trace' \in Traces(n_samples, n_intervals)
    /\ pc' = "hazard"
    /\ UNCHANGED <<datavars, modelvars, n_samples, base_hazard, met_hazard, plots>>

\* base_hazard = trace['lambda0']
\* met_hazard = trace['lambda0'] * np.exp(np.atleast_2d(trace['beta']).T)
HazardCell ==
    /\ pc = "hazard"
    /\ base_hazard' = trace.lambda0
    /\ met_hazard' = [s \in DOMAIN trace.lambda0 |->
                         [j \in DOMAIN trace.lambda0[s] |->
                             trace.lambda0[s][j] * trace.exp_beta[s]]]
    /\ pc' = "plot"
    /\ UNCHANGED <<datavars, modelvars, n_samples, trace, plots>>

\* the four plot_with_hpd calls of the plotting cell, x = interval_bounds[:-1]
PlotCell ==
    /\ pc = "plot"
    /\ plots' = <<plot_with_hpd(AllButLast(interval_bounds), base_hazard, "cum_hazard"),
                  plot_with_hpd(AllButLast(interval_bounds), met_hazard, "cum_hazard"),
                  plot_with_hpd(AllButLast(interval_bounds), base_hazard, "survival"),
                  plot_with_hpd(AllButLast(interval_bounds), met_hazard, "survival")>>
    /\ pc' = "done"
    /\ UNCHANGED <<datavars, modelvars, n_samples, trace, base_hazard, met_hazard>>

NextPost == SampleCell \/ HazardCell \/ PlotCell

SpecPost == InitPost /\ [][NextPost]_vars

\* ------------------------------------------------- properties of the data
IntervalsBuilt == pc \in {"death", "exposure", "model", "sample"}
DeathBuilt == pc \in {"exposure", "model", "sample"}
ExposureBuilt == pc \in {"model", "sample"}
ModelBuilt == pc = "sample"

Subjects == 0..(n_patients - 1)
Columns == 0..(n_intervals - 1)

\* the length of the overlap of [0, t] with [lo, hi]
Overlap(t, lo, hi) == Max(0, Min(t, hi) - lo)

\* C1: after the exposure cell, exposure[i][j] is the time subject i was at
\* risk in interval j: max(0, min(time_i, bounds[j+1]) - bounds[j]).
C1_ExposureIsTimeAtRisk ==
    ExposureBuilt =>
        \A i \in Subjects : \A j \in Columns :
            At(At(exposure, i), j) =
                Overlap(At(df, i).time, At(interval_bounds, j),
                        At(interval_bounds, j + 1))

\* C2 (as claimed): every row of death holds exactly one 1 and 0 elsewhere.
C2_DeathOneHot ==
    DeathBuilt =>
        \A i \in Subjects :
            /\ \A j \in Columns : At(At(death, i), j) \in {0, 1}
            /\ Cardinality({j \in Columns : At(At(death, i), j) = 1}) = 1

\* C2 (amended): every entry of death is 0 or 1, and row i holds exactly one 1
\* when subject i died (event_i = 1) and no 1 when subject i is censored.
C2_DeathOneHotIffEvent ==
    DeathBuilt =>
        \A i \in Subjects :
            /\ \A j \in Columns : At(At(death, i), j) \in {0, 1}
            /\ Cardinality({j \in Columns : At(At(death, i), j) = 1})
                   = At(df, i).event

C2_Witness ==
    /\ DeathBuilt
    /\ \E i \in Subjects : At(df, i).event = 1
    /\ \E i \in Subjects : At(df, i).event = 0

C4_ExposureNonNegative ==
    ExposureBuilt =>
        \A i \in Subjects : \A j \in Columns : At(At(exposure, i), j) >= 0

C4_Witness ==
    /\ ExposureBuilt
    /\ \E i \in Subjects :
        /\ At(At(exposure, i), At(last_period, i))
               = At(df, i).time - At(interval_bounds, At(last_period, i))
        /\ At(At(exposure, i), At(last_period, i)) < interval_length
        /\ \E j \in Columns : At(At(exposure, i), j) = 0

\* C9: interval_bounds starts at 0, consecutive bounds differ by
\* interval_length (so they increase strictly), and n_intervals is
\* len(interval_bounds) - 1.
C9_FixedWidthPartition ==
    IntervalsBuilt =>
        /\ At(interval_bounds, 0) = 0
        /\ \A j \in 0..(Len(interval_bounds) - 2) :
            /\ At(interval_bounds, j + 1) - At(interval_bounds, j) = interval_length
            /\ At(interval_bounds, j) < At(interval_bounds, j + 1)
        /\ n_intervals = Len(interval_bounds) - 1

C9_Witness ==
    /\ IntervalsBuilt
    /\ n_intervals >= 3
    /\ SeqMax(Times(df)) % interval_length = 0

\* C10: once the load cell has run no later cell changes df (time, event,
\* metastized of any subject), and the death and exposure cells leave
\* interval_bounds as it was.
C10_ObservationsImmutable ==
    [][/\ (pc # "load" => df' = df)
       /\ (pc \in {"death", "exposure"} => interval_bounds' = interval_bounds)]_vars

C10_Witness ==
    /\ ExposureBuilt
    /\ \E i \in Subjects :
        At(At(exposure, i), At(last_period, i)) # interval_length


\* ------------------------------------------ properties of the posterior
Plotted == pc = "done"

\* the hazard array of each plot_with_hpd call, in call order
PlotHazards == <<base_hazard, met_hazard, base_hazard, met_hazard>>

PlotIds == 1..4

\* the lines drawn by plot i with the hazards they come from: the centre
\* line, and the curve of every sample behind the band
PlotLines(i) ==
    {[line |-> plots[i].mean, hazard |-> MeanAxis0(PlotHazards[i])]}
        \cup {[line |-> plots[i].curves[s], hazard |-> AsRat(PlotHazards[i][s])] :
                 s \in DOMAIN plots[i].curves}

\* the integral from 0 to t of the hazard that is hazard[k] on the k-th interval
Integral(hazard, bounds, t) ==
    RatSum([k \in DOMAIN hazard |->
               RatMul(hazard[k], RatOf(Overlap(t, bounds[k], bounds[k + 1])))])

\* C5: the cumulative hazard the plots pair with time x[j] = interval_bounds[j]
\* is the integral of the hazard from 0 to that time, interval_length times
\* the sum of hazard[k] over k < j; the survival paired with x[j] is exp of
\* minus that, so at time 0 the cumulative hazard is 0 and the survival is 1.
C5_PlottedValueIsIntegralToX ==
    Plotted =>
        \A i \in PlotIds : \A l \in PlotLines(i) : \A j \in DOMAIN l.line :
            IF plots[i].f = "cum_hazard"
            THEN l.line[j] = Integral(l.hazard, interval_bounds, plots[i].x[j])
            ELSE l.line[j] =
                     np_exp(RatNeg(Integral(l.hazard, interval_bounds, plots[i].x[j])))

\* C6: for non-negative hazards cum_hazard(hazard)[j] is interval_length times
\* the sum of hazard[0..j], and cum_hazard(hazard)[j] <= cum_hazard(hazard)[j+1].
C6_CumHazardNonDecreasing ==
    Plotted =>
        \A i \in PlotIds : plots[i].f = "cum_hazard" =>
            \A l \in PlotLines(i) : \A j \in DOMAIN l.line :
                /\ l.line[j] = RatMul(RatOf(interval_length),
                                      RatSum(SubSeq(l.hazard, 1, j)))
                /\ j < Len(l.line) => RatLeq(l.line[j], l.line[j + 1])

C6_Witness ==
    /\ Plotted
    /\ n_samples >= 2
    /\ \E i \in PlotIds : \E l \in PlotLines(i) : \E j \in DOMAIN l.line :
        /\ plots[i].f = "cum_hazard"
        /\ j < Len(l.line)
        /\ RatLess(RatOf(0), l.line[j])
        /\ RatLess(l.line[j], l.line[j + 1])

FloatPositive(a) == a.kind # "zero"
FloatLeqOne(a) == a.kind = "zero" \/ (a.kind = "pos" /\ a.log.num <= 0)

\* C7 (as claimed): for non-negative hazards survival(hazard)[j] is
\* exp(-cum_hazard(hazard)[j]), survival(hazard)[j+1] <= survival(hazard)[j],
\* and every value is in (0, 1].
C7_SurvivalInHalfOpenUnit ==
    Plotted =>
        \A i \in PlotIds : plots[i].f = "survival" =>
            \A l \in PlotLines(i) : \A j \in DOMAIN l.line :
                /\ l.line[j] = np_exp(RatNeg(cum_hazard(l.hazard)[j]))
                /\ j < Len(l.line) => FloatLeq(l.line[j + 1], l.line[j])
                /\ FloatPositive(l.line[j])
                /\ FloatLeqOne(l.line[j])

\* C7 (amended): for non-negative hazards survival(hazard)[j] is
\* exp(-cum_hazard(hazard)[j]) as float64 gives it, survival(hazard)[j+1] <=
\* survival(hazard)[j], every value is in [0, 1], and a value is above 0
\* whenever cum_hazard(hazard)[j] is at most 745.
C7_SurvivalInClosedUnit ==
    Plotted =>
        \A i \in PlotIds : plots[i].f = "survival" =>
            \A l \in PlotLines(i) : \A j \in DOMAIN l.line :
                /\ l.line[j] = np_exp(RatNeg(cum_hazard(l.hazard)[j]))
                /\ j < Len(l.line) => FloatLeq(l.line[j + 1], l.line[j])
                /\ FloatLeqOne(l.line[j])
                /\ RatLeq(cum_hazard(l.hazard)[j], RatOf(745)) => FloatPositive(l.line[j])

C7_Witness ==
    /\ Plotted
    /\ \E i \in PlotIds : \E l \in PlotLines(i) : \E j \in DOMAIN l.line :
        /\ plots[i].f = "survival"
        /\ j < Len(l.line)
        /\ FloatLess(l.line[j], np_exp(RatOf(0)))
        /\ FloatPositive(l.line[j])
        /\ ~FloatPositive(l.line[j + 1])

\* the value of a percentile of fractions
InterpValue(p) == RatAdd(p.lo, RatMul(p.frac, RatSub(p.hi, p.lo)))

\* the least and the greatest a percentile can be (lo <= hi, 0 <= frac < 1)
InterpLeast(p) == p.lo
InterpMost(p) == IF p.frac.num = 0 THEN p.lo ELSE p.hi

\* percentile l <= percentile u, both of one column.  For fractions the two
\* values are compared; for results of np_exp it is decided from the
\* neighbours: l ends where u starts or before, or both lie between the
\* same two neighbours and l is no further along.
PercentileLeq(f, l, u) ==
    IF f = "cum_hazard" THEN RatLeq(InterpValue(l), InterpValue(u))
    ELSE \/ FloatLeq(InterpMost(l), InterpLeast(u))
         \/ l.lo = u.lo /\ l.hi = u.hi /\ RatLeq(l.frac, u.frac)

\* percentile p <= v and v <= p.  For results of np_exp the answer is TRUE
\* unless v is certainly on the other side of p.
PercentileLeqValue(f, p, v) ==
    IF f = "cum_hazard" THEN RatLeq(InterpValue(p), v) ELSE FloatLeq(InterpLeast(p), v)

ValueLeqPercentile(f, v, p) ==
    IF f = "cum_hazard" THEN RatLeq(v, InterpValue(p)) ELSE FloatLeq(v, InterpMost(p))

\* C8 (as claimed): in every plot and at every interval j,
\* lower[j] <= mean[j] <= upper[j].
C8_MeanWithinPercentiles ==
    Plotted =>
        \A i \in PlotIds : \A j \in DOMAIN plots[i].mean :
            /\ PercentileLeqValue(plots[i].f, plots[i].lower[j], plots[i].mean[j])
            /\ ValueLeqPercentile(plots[i].f, plots[i].mean[j], plots[i].upper[j])

\* C8 (amended): in every plot and at every interval j, lower[j] <= upper[j],
\* and mean[j] lies between the least and the greatest of f(hazard)[j] over
\* the samples; with one sample, lower[j] = mean[j] = upper[j].
C8_MeanWithinExtremes ==
    Plotted =>
        \A i \in PlotIds : \A j \in DOMAIN plots[i].mean :
            /\ PercentileLeq(plots[i].f, plots[i].lower[j], plots[i].upper[j])
            /\ \E s \in DOMAIN plots[i].curves :
                ValLeq(plots[i].curves[s][j], plots[i].mean[j])
            /\ \E s \in DOMAIN plots[i].curves :
                ValLeq(plots[i].mean[j], plots[i].curves[s][j])
            /\ n_samples = 1 =>
                /\ plots[i].lower[j].frac.num = 0
                /\ plots[i].upper[j].frac.num = 0
                /\ plots[i].lower[j].lo = plots[i].mean[j]
                /\ plots[i].upper[j].lo = plots[i].mean[j]

C8_Witness ==
    /\ Plotted
    /\ n_samples >= 41
    /\ \A i \in PlotIds : \E j \in DOMAIN plots[i].mean :
        /\ ValLess(plots[i].lower[j].lo, plots[i].upper[j].hi)
        /\ \E s \in DOMAIN plots[i].curves :
            ValLess(plots[i].mean[j], plots[i].curves[s][j])

\* ------------------------------------------- row sums of the two matrices
\* C11: after the exposure cell, row i of exposure sums to time_i and
\* exposure[i][j] = 0 for every interval j > last_period[i].
C11_ExposureSumsToTime ==
    ExposureBuilt =>
        \A i \in Subjects :
            /\ IntSum(At(exposure, i)) = At(df, i).time
            /\ \A j \in Columns :
                j > At(last_period, i) => At(At(exposure, i), j) = 0

\* C12: row i of death is 0 everywhere except possibly at column
\* last_period[i], where it is event_i; so the row sums to event_i and no
\* row holds more than one 1.
C12_DeathRowIsEventAtLastPeriod ==
    DeathBuilt =>
        \A i \in Subjects :
            /\ \A j \in Columns :
                At(At(death, i), j) =
                    IF j = At(last_period, i) THEN At(df, i).event ELSE 0
            /\ IntSum(At(death, i)) = At(df, i).event
            /\ Cardinality({j \in Columns : At(At(death, i), j) # 0}) <= 1

C12_Witness ==
    /\ DeathBuilt
    /\ n_intervals >= 2
    /\ \E i \in Subjects :
        /\ At(df, i).event = 1
        /\ At(last_period, i) >= 1
        /\ IntSum(At(death, i)) = 1
    /\ \E i \in Subjects :
        /\ At(df, i).event = 0
        /\ IntSum(At(death, i)) = 0

\* C13: wherever a death is recorded the subject was at risk, death[i][j] = 1
\* implies exposure[i][j] > 0, and with positive hazards the Poisson mean
\* mu[i][j] = exposure[i][j] * lambda_[i][j] is above 0 there.
C13_DeathOnlyWhereAtRisk ==
    /\ ExposureBuilt =>
        \A i \in Subjects : \A j \in Columns :
            At(At(death, i), j) = 1 => At(At(exposure, i), j) > 0
    /\ ModelBuilt =>
        \A i \in Subjects : \A j \in Columns :
            /\ At(At(mu, i), j) = At(At(exposure, i), j) * At(At(lambda_, i), j)
            /\ At(At(lambda_, i), j) > 0
            /\ At(At(death, i), j) = 1 => At(At(mu, i), j) > 0

C13_Witness ==
    /\ ModelBuilt
    /\ \E i \in Subjects :
        /\ At(df, i).event = 1
        /\ At(df, i).time % interval_length = 0
        /\ At(At(death, i), At(last_period, i)) = 1
        /\ At(At(mu, i), At(last_period, i)) > 0
        /\ At(df, i).metastized = 1

====
